---- MODULE Spec2Model ----
(***************************************************************************)
(* A model of cusbc.py: the PortState codec (from_bitmapped, from_hex),    *)
(* the wire encoder inside CUSBC.set_port_states, and the CUSBC controller *)
(* that drives the external CUSBC.exe process.                             *)
(*                                                                         *)
(* Python strings that the code parses are sequences of one-character      *)
(* strings; an Optional value is a sequence of length 0 (None) or 1.       *)
(***************************************************************************)
EXTENDS Integers, Sequences, FiniteSets, TLC

VARIABLES
    constructed,  \* TRUE once CUSBC.__init__ has returned an object
    port,         \* self.port      (Optional string)
    password,     \* self.password  (Optional string)
    op,           \* the operation the last step performed
    err,          \* the exception that operation raised, or NoError
    ret,          \* the value that operation returned
    calls,        \* the invocations of CUSBC.exe that operation issued, in order
    results,      \* what the process did at each of those invocations
    modeArg,      \* the mode argument of that operation ("" when it takes none)
    cin,          \* codec: the input of the codec run
    cwire,        \* codec: the wire string
    cout,         \* codec: the decoded value
    stage         \* codec: position of the codec run

vars == <<constructed, port, password, op, err, ret, calls, results, modeArg, cin, cwire, cout, stage>>
ctlVars == <<constructed, port, password, op, err, ret, calls, results, modeArg>>
codecVars == <<cin, cwire, cout, stage>>

----------------------------------------------------------------------------
(* Bounds of the model *)

\* longest boolean sequence given to the bit-mapped encoder
MaxLen == 6
\* most bytes in a byte-aligned boolean sequence given to the hex encoder
MaxBytes == 2
\* longest hexadecimal string given to from_hex
MaxHexLen == 3
\* most port identifiers listed (and largest count declared) by a query-all response
MaxHubs == 2
\* longest state tuple given to set_port_states by the controller
MaxState == 1

----------------------------------------------------------------------------
(* Python values *)

None == <<>>
Some(x) == <<x>>
Falsy_is_none(x) == x = None
\* `not x` for an Optional[str]: None and the empty string are falsy
Falsy(x) == IF x = None THEN TRUE ELSE Len(x[1]) = 0

Min(a, b) == IF a < b THEN a ELSE b

\* s[a:b] for 0 <= a <= b, clamped to the string as Python clamps it
Slice(s, a, b) == SubSeq(s, a + 1, Min(b, Len(s)))
\* s[a:]
SliceFrom(s, a) == SubSeq(s, a + 1, Len(s))
\* s[::-1]
Reverse(s) == [i \in 1..Len(s) |-> s[Len(s) - i + 1]]

Whitespace == {" ", "\n"}

RECURSIVE LStrip(_)
LStrip(s) == IF Len(s) > 0 /\ s[1] \in Whitespace THEN LStrip(Tail(s)) ELSE s
\* str.strip()
Strip(s) == Reverse(LStrip(Reverse(LStrip(s))))

\* str.zfill(width) for a string without a sign
RECURSIVE Zfill(_, _)
Zfill(s, width) == IF Len(s) >= width THEN s ELSE Zfill(<<"0">> \o s, width)

Digits == <<"0", "1", "2", "3", "4", "5", "6", "7", "8", "9", "a", "b", "c", "d", "e", "f">>
UpperDigits == <<"0", "1", "2", "3", "4", "5", "6", "7", "8", "9", "A", "B", "C", "D", "E", "F">>
HexChars == {Digits[i] : i \in 1..16} \cup {UpperDigits[i] : i \in 1..16}

\* the value of one digit character (either case), or -1 when it is no digit
DigitVal(c) ==
    IF \E i \in 1..16 : Digits[i] = c THEN (CHOOSE i \in 1..16 : Digits[i] = c) - 1
    ELSE IF \E i \in 1..16 : UpperDigits[i] = c THEN (CHOOSE i \in 1..16 : UpperDigits[i] = c) - 1
    ELSE -1

\* whether int(s, base) accepts s (no sign, whitespace or underscore occurs in the inputs)
IntOk(s, base) ==
    /\ Len(s) > 0
    /\ \A i \in 1..Len(s) : DigitVal(s[i]) >= 0 /\ DigitVal(s[i]) < base

\* int(s, base) for an accepted s
RECURSIVE IntOf(_, _)
IntOf(s, base) ==
    IF Len(s) = 0 THEN 0
    ELSE IntOf(SubSeq(s, 1, Len(s) - 1), base) * base + DigitVal(s[Len(s)])

\* bin(n)[2:], hex(n)[2:] and str(n) for n >= 0: no leading zeros, "0" for 0
RECURSIVE Render(_, _)
Render(n, base) ==
    IF n < base THEN <<Digits[n + 1]>>
    ELSE Render(n \div base, base) \o <<Digits[(n % base) + 1]>>

----------------------------------------------------------------------------
(* class PortState *)

from_bitmapped_unreversed(bitmapped) ==
    [i \in 1..Len(bitmapped) |-> bitmapped[i] = "1"]

\* PortState.from_bitmapped
from_bitmapped(bitmapped) ==
    LET r == Reverse(bitmapped)
    IN  [i \in 1..Len(r) |-> r[i] = "1"]

\* the bits of one byte of from_hex: bin(int(byte, 16))[2:].zfill(8)[::-1]
ByteBits(byte) ==
    LET bin_state == Reverse(Zfill(Render(IntOf(byte, 16), 2), 8))
    IN  [i \in 1..Len(bin_state) |-> bin_state[i] = "1"]

RECURSIVE HexBytes(_)
HexBytes(hex_state) ==
    IF Len(hex_state) = 0 THEN <<>>
    ELSE ByteBits(Slice(hex_state, 0, 2)) \o HexBytes(SliceFrom(hex_state, 2))

\* whether PortState.from_hex raises ValueError (int(byte, 16) rejects a byte)
from_hex_raises(hex_state) ==
    \E i \in 1..Len(hex_state) : DigitVal(hex_state[i]) < 0

from_hex_msb_first(hex_state) ==
    LET padded == Zfill(hex_state, Len(hex_state) + (Len(hex_state) % 2))
        bits == HexBytes(padded)
    IN  [i \in 1..Len(bits) |-> bits[8 * ((i - 1) \div 8) + 8 - ((i - 1) % 8)]]

\* PortState.from_hex, for a string of hexadecimal digits
from_hex(hex_state) ==
    HexBytes(Zfill(hex_state, Len(hex_state) + (Len(hex_state) % 2)))

\* ''.join(['1' if s else '0' for s in state])
BitString(state) == [i \in 1..Len(state) |-> IF state[i] THEN "1" ELSE "0"]

\* the encoder of set_port_states: [err, str]
encode(state, mode) ==
    LET rev == Reverse(state) IN
    IF mode = "B" THEN [err |-> "NoError", str |-> BitString(rev)]
    ELSE IF mode = "H" THEN
        IF IntOk(BitString(rev), 2)
        THEN [err |-> "NoError", str |-> Render(IntOf(BitString(rev), 2), 16)]
        ELSE [err |-> "ValueError: invalid literal for int()", str |-> <<>>]
    ELSE [err |-> "ValueError: Invalid mode", str |-> <<>>]

----------------------------------------------------------------------------
(* The external process *)

\* one invocation of CUSBC.exe: [FILEPATH_CUCBC, cmd:target, *pw, flag:data]
Invocation(cmd, target, pw, flag, data) ==
    [cmd |-> cmd, target |-> target, pw |-> pw, flag |-> flag, data |-> data]

\* what the process does at one invocation: it cannot be spawned, or it exits
\* with a status after writing out to its standard output
Outcome(spawned, code, out) == [spawned |-> spawned, code |-> code, out |-> out]
SpawnFailure == Outcome(FALSE, 1, <<>>)
ToolFailure == Outcome(TRUE, 1, <<>>)

NoError == "NoError"
OSError == "OSError"
IntError == "ValueError: invalid literal for int()"
NoHubError == "ValueError: No available USB hub found."
GetModeError == "ValueError: Invalid mode: choose '-B' for bit-mapped or '-H' for hex."
SetModeError == "ValueError: Invalid mode: choose 'B' for bit-mapped or 'H' for hex."
PasswordError == "ValueError: Password is required for this operation."
CurrentPasswordError == "ValueError: Current password is required."

\* the result of a method: the exception raised or the value returned, and the
\* invocations issued with what the process did at each
Result(e, v, c, r) == [err |-> e, val |-> v, calls |-> c, results |-> r]

\* CUSBC._run_command: subprocess.run raises when the process cannot be
\* spawned; otherwise stdout.strip() is returned whatever the exit status
run_command(inv, o) ==
    IF o.spawned THEN Result(NoError, Strip(o.out), <<inv>>, <<o>>)
    ELSE Result(OSError, None, <<inv>>, <<o>>)

\* str.split(sep) for a one-character separator
RECURSIVE Split(_, _)
Split(s, sep) ==
    IF \E i \in 1..Len(s) : s[i] = sep
    THEN LET i == CHOOSE i \in 1..Len(s) : s[i] = sep /\ \A j \in 1..(i - 1) : s[j] # sep
         IN  <<SubSeq(s, 1, i - 1)>> \o Split(SliceFrom(s, i), sep)
    ELSE <<s>>

----------------------------------------------------------------------------
(* class CUSBC: what each method computes *)

\* CUSBC.query_hub_info(port)
query_hub_info(p, o) ==
    LET r == run_command(Invocation("/Q", Some(p), <<>>, "-F", <<>>), o)
        output == r.val
        num_ports == IntOf(Slice(output, 8, 10), 16)
    IN  IF r.err # NoError THEN r
        ELSE IF ~IntOk(Slice(output, 8, 10), 16) THEN Result(IntError, None, r.calls, r.results)
        ELSE IF from_hex_raises(Slice(output, 0, 8)) THEN Result(IntError, None, r.calls, r.results)
        ELSE Result(NoError,
                    [port_states |-> Slice(from_hex(Slice(output, 0, 8)), 0, num_ports),
                     num_ports |-> num_ports,
                     firmware_version |-> SliceFrom(output, 10)],
                    r.calls, r.results)

\* HubInfo(port=port, **hub_info)
HubInfo(p, hub_info) ==
    [port |-> p,
     num_ports |-> hub_info.num_ports,
     firmware_version |-> hub_info.firmware_version,
     port_states |-> hub_info.port_states]

\* the loop of query_hubs over ports[i..], after hubs were appended
RECURSIVE HubLoop(_, _, _, _)
HubLoop(ports, resp, i, acc) ==
    IF i > Len(ports) THEN acc
    ELSE LET r == query_hub_info(ports[i], resp[i]) IN
         IF r.err # NoError
         THEN Result(r.err, None, acc.calls \o r.calls, acc.results \o r.results)
         ELSE HubLoop(ports, resp, i + 1,
                      Result(NoError, Append(acc.val, HubInfo(ports[i], r.val)),
                             acc.calls \o r.calls, acc.results \o r.results))

\* the port identifiers query_hubs iterates over, for a query-all outcome
ListedPorts(qa) ==
    IF qa.spawned /\ IntOk(Slice(Strip(qa.out), 0, 4), 10)
    THEN Split(SliceFrom(Strip(qa.out), 4), ",")
    ELSE <<>>

\* CUSBC.query_hubs(); resp[i] is what the process does at the i-th per-port query
query_hubs(qa, resp) ==
    LET r == run_command(Invocation("/Q", None, <<>>, "-F", <<>>), qa)
        output == r.val
    IN  IF r.err # NoError THEN r
        ELSE IF ~IntOk(Slice(output, 0, 4), 10) THEN Result(IntError, None, r.calls, r.results)
        ELSE HubLoop(Split(SliceFrom(output, 4), ","), resp, 1,
                     Result(NoError, <<>>, r.calls, r.results))

\* CUSBC.find_available_port()
find_available_port(qa, resp) ==
    LET r == query_hubs(qa, resp) IN
    IF r.err # NoError THEN r
    ELSE IF Len(r.val) > 0 THEN Result(NoError, r.val[1].port, r.calls, r.results)
    ELSE Result(NoHubError, None, r.calls, r.results)

\* CUSBC.get_port_states(mode)
get_port_states(p, m, o) ==
    LET r == run_command(Invocation("/G", p, <<>>, m, <<>>), o)
        raw_state == r.val
    IN  IF r.err # NoError THEN r
        ELSE IF m = "-B" THEN Result(NoError, from_bitmapped(raw_state), r.calls, r.results)
        ELSE IF m = "-H" THEN
            IF from_hex_raises(raw_state) THEN Result(IntError, None, r.calls, r.results)
            ELSE Result(NoError, from_hex(raw_state), r.calls, r.results)
        ELSE Result(GetModeError, None, r.calls, r.results)

\* CUSBC.set_port_states(state, mode)
set_port_states(p, pw, state, m, o) ==
    LET e == encode(state, m) IN
    IF e.err = "ValueError: Invalid mode" THEN Result(SetModeError, None, <<>>, <<>>)
    ELSE IF e.err # NoError THEN Result(e.err, None, <<>>, <<>>)
    ELSE LET r == run_command(
                 Invocation("/S", p, IF Falsy(pw) THEN <<>> ELSE <<pw[1]>>, m, e.str), o)
         IN  Result(r.err, None, r.calls, r.results)

\* save_initial_states, restore_factory_defaults, reset_hub: cmd is /W, /D, /R
password_command(cmd, p, pw, o) ==
    IF Falsy(pw) THEN Result(PasswordError, None, <<>>, <<>>)
    ELSE LET r == run_command(Invocation(cmd, p, <<pw[1]>>, "", <<>>), o)
         IN  Result(r.err, None, r.calls, r.results)

\* CUSBC.change_password(new_password), up to the assignment of self.password
change_password(p, pw, new, o) ==
    IF Falsy(pw) THEN Result(CurrentPasswordError, None, <<>>, <<>>)
    ELSE LET r == run_command(Invocation("/P", p, <<pw[1], new>>, "", <<>>), o)
         IN  Result(r.err, None, r.calls, r.results)

\* the controller before construction
NoController ==
    /\ constructed = FALSE
    /\ port = None
    /\ password = None
    /\ op = "none"
    /\ err = "NoError"
    /\ ret = None
    /\ calls = <<>>
    /\ results = <<>>
    /\ modeArg = ""

\* every sequence over S of length n
SeqsOfLen(S, n) == [1..n -> S]
\* every sequence over S of length 0..n
SeqsUpTo(S, n) == UNION {SeqsOfLen(S, k) : k \in 0..n}

----------------------------------------------------------------------------
(* Inputs of the controller: arguments, and what the process may do *)

\* "COM1", "COM2", ...
PortName(i) == <<"C", "O", "M", Digits[i + 1]>>

\* "COM1,COM2,...,COMk"
RECURSIVE JoinPorts(_)
JoinPorts(k) ==
    IF k = 0 THEN <<>>
    ELSE IF k = 1 THEN PortName(1)
    ELSE JoinPorts(k - 1) \o <<",">> \o PortName(k)

\* query-all responses: every declared count with every number of listed ports,
\* a non-numeric prefix, and a response that ends in a newline
QueryAllOutputs ==
    {Zfill(Render(d, 10), 4) \o JoinPorts(k) : d \in 0..MaxHubs, k \in 0..MaxHubs}
    \cup {<<"0", "0", "x", "1">> \o PortName(1),
          <<"0", "0", "0", "1">> \o PortName(1) \o <<"\n">>}
QueryAllOutcomes ==
    {SpawnFailure, ToolFailure} \cup {Outcome(TRUE, 0, out) : out \in QueryAllOutputs}

\* a per-port response: 8 hex characters of states, 2 of port count, the firmware
HubResponse(field, n) == field \o Zfill(Render(n, 16), 2) \o <<"v", "1">>
StateFields ==
    {<<"0", "0", "0", "0", "0", "0", "0", "A">>, <<"F", "8", "0", "0", "0", "0", "0", "1">>}
PortCounts == {0, 4, 8, 32, 33, 255}
HubInfoOutcomes ==
    {SpawnFailure, ToolFailure, Outcome(TRUE, 0, <<"F", "8">>)}
    \cup {Outcome(TRUE, 0, HubResponse(f, n)) : f \in StateFields, n \in PortCounts}
\* the per-port responses drawn inside query_hubs
ListOutcomes ==
    {ToolFailure,
     Outcome(TRUE, 0, HubResponse(<<"0", "0", "0", "0", "0", "0", "0", "A">>, 4))}
\* for each query-all outcome, the choices of one outcome for each per-port query
\* that query_hubs issues after it
ListResponses ==
    [qa \in QueryAllOutcomes |-> [1..Len(ListedPorts(qa)) -> ListOutcomes]]

GetModes == {"-B", "-H", "-X"}
SetModes == {"B", "H", "X"}
GetOutcomes ==
    {SpawnFailure, ToolFailure}
    \cup {Outcome(TRUE, 0, out) :
            out \in {<<"0", "0", "1", "0">>, <<"F", "8">>, <<"1", "f", "8">>, <<"G", "8">>,
                     <<"0", "0", "1", "0", "\n">>}}
ToolOutcomes == {SpawnFailure, ToolFailure, Outcome(TRUE, 0, <<>>)}

GivenPorts == {Some(PortName(1)), Some(PortName(2))}
NoPorts == {None, Some(<<>>)}
Passwords == {None, Some(<<>>), Some(<<"p", "w">>)}
NewPasswords == {<<>>, <<"n", "e", "w">>}
QueriedPorts == {PortName(1), <<>>}

\* The methods that touch no field of the object, computed once for every
\* outcome of the process
QueryHubsResults ==
    [qa \in QueryAllOutcomes |-> [resp \in ListResponses[qa] |-> query_hubs(qa, resp)]]
FindAvailablePortResults ==
    [qa \in QueryAllOutcomes |->
        [resp \in ListResponses[qa] |-> find_available_port(qa, resp)]]
QueryHubInfoResults ==
    [p \in QueriedPorts |-> [o \in HubInfoOutcomes |-> query_hub_info(p, o)]]

----------------------------------------------------------------------------
(* The controller: one action per method call *)

Init ==
    /\ NoController
    /\ cin = <<>>
    /\ cwire = <<>>
    /\ cout = <<>>
    /\ stage = "idle"

\* a method call that leaves the object's fields alone
Return(name, r, m) ==
    /\ op' = name
    /\ err' = r.err
    /\ ret' = r.val
    /\ calls' = r.calls
    /\ results' = r.results
    /\ modeArg' = m
    /\ UNCHANGED <<constructed, port, password>>
    /\ UNCHANGED codecVars

\* CUSBC(port=p, password=pw) with a port given
ConstructGiven(p, pw) ==
    /\ ~constructed
    /\ ~Falsy(p)
    /\ port' = p
    /\ password' = pw
    /\ constructed' = TRUE
    /\ op' = "__init__"
    /\ err' = NoError
    /\ ret' = None
    /\ calls' = <<>>
    /\ results' = <<>>
    /\ modeArg' = ""
    /\ UNCHANGED codecVars

\* CUSBC(port=p, password=pw) with no port: the port is discovered; when
\* find_available_port raises, no object comes into being
ConstructDiscover(p, pw, qa, resp) ==
    /\ ~constructed
    /\ Falsy(p)
    /\ LET r == FindAvailablePortResults[qa][resp] IN
        /\ constructed' = (r.err = NoError)
        /\ port' = IF r.err = NoError THEN Some(r.val) ELSE None
        /\ password' = IF r.err = NoError THEN pw ELSE None
        /\ op' = "__init__"
        /\ err' = r.err
        /\ ret' = None
        /\ calls' = r.calls
        /\ results' = r.results
        /\ modeArg' = ""
    /\ UNCHANGED codecVars

FindAvailablePort_assigns(qa, resp) ==
    /\ constructed
    /\ LET r == FindAvailablePortResults[qa][resp] IN
        /\ op' = "find_available_port"
        /\ err' = r.err
        /\ ret' = r.val
        /\ calls' = r.calls
        /\ results' = r.results
        /\ modeArg' = ""
        /\ port' = IF r.err = NoError THEN Some(r.val) ELSE port
    /\ UNCHANGED <<constructed, password>>
    /\ UNCHANGED codecVars

FindAvailablePort(qa, resp) ==
    /\ constructed
    /\ Return("find_available_port", FindAvailablePortResults[qa][resp], "")

QueryHubs(qa, resp) ==
    /\ constructed
    /\ Return("query_hubs", QueryHubsResults[qa][resp], "")

QueryHubInfo(p, o) ==
    /\ constructed
    /\ Return("query_hub_info", QueryHubInfoResults[p][o], "")

GetPortStates(m, o) ==
    /\ constructed
    /\ Return("get_port_states", get_port_states(port, m, o), m)

SetPortStates(state, m, o) ==
    /\ constructed
    /\ Return("set_port_states", set_port_states(port, password, state, m, o), m)

SaveInitialStates(o) ==
    /\ constructed
    /\ Return("save_initial_states", password_command("/W", port, password, o), "")

RestoreFactoryDefaults(o) ==
    /\ constructed
    /\ Return("restore_factory_defaults", password_command("/D", port, password, o), "")

ResetHub(o) ==
    /\ constructed
    /\ Return("reset_hub", password_command("/R", port, password, o), "")

\* change_password: self.password = new_password is reached unless a line
\* before it raised
ChangePassword(new, o) ==
    /\ constructed
    /\ LET r == change_password(port, password, new, o) IN
        /\ op' = "change_password"
        /\ err' = r.err
        /\ ret' = None
        /\ calls' = r.calls
        /\ results' = r.results
        /\ modeArg' = ""
        /\ password' = IF r.err = NoError THEN Some(new) ELSE password
    /\ UNCHANGED <<constructed, port>>
    /\ UNCHANGED codecVars

Next ==
    \/ \E p \in GivenPorts, pw \in Passwords : ConstructGiven(p, pw)
    \/ \E p \in NoPorts, pw \in Passwords, qa \in QueryAllOutcomes :
          \E resp \in ListResponses[qa] : ConstructDiscover(p, pw, qa, resp)
    \/ \E qa \in QueryAllOutcomes : \E resp \in ListResponses[qa] : FindAvailablePort(qa, resp)
    \/ \E qa \in QueryAllOutcomes : \E resp \in ListResponses[qa] : QueryHubs(qa, resp)
    \/ \E p \in QueriedPorts, o \in HubInfoOutcomes : QueryHubInfo(p, o)
    \/ \E m \in GetModes, o \in GetOutcomes : GetPortStates(m, o)
    \/ \E state \in SeqsUpTo(BOOLEAN, MaxState), m \in SetModes, o \in ToolOutcomes :
          SetPortStates(state, m, o)
    \/ \E o \in ToolOutcomes : SaveInitialStates(o)
    \/ \E o \in ToolOutcomes : RestoreFactoryDefaults(o)
    \/ \E o \in ToolOutcomes : ResetHub(o)
    \/ \E new \in NewPasswords, o \in ToolOutcomes : ChangePassword(new, o)

Spec == Init /\ [][Next]_vars

----------------------------------------------------------------------------
(* Codec runs: the encoder and the decoders applied to bounded inputs *)

InitCodec(inputs) ==
    /\ NoController
    /\ cin \in inputs
    /\ cwire = <<>>
    /\ cout = <<>>
    /\ stage = "input"

\* the encoding half of set_port_states(cin, mode)
Encode(mode) ==
    /\ stage = "input"
    /\ LET e == encode(cin, mode) IN
        /\ cwire' = e.str
        /\ stage' = IF e.err = "NoError" THEN "encoded" ELSE "raised"
    /\ UNCHANGED <<cin, cout>>
    /\ UNCHANGED ctlVars

\* PortState.from_bitmapped(cwire)
DecodeBitmapped ==
    /\ stage = "encoded"
    /\ cout' = from_bitmapped(cwire)
    /\ stage' = "decoded"
    /\ UNCHANGED <<cin, cwire>>
    /\ UNCHANGED ctlVars

\* PortState.from_hex(cwire)
DecodeHex ==
    /\ stage = "encoded"
    /\ ~from_hex_raises(cwire)
    /\ cout' = from_hex(cwire)
    /\ stage' = "decoded"
    /\ UNCHANGED <<cin, cwire>>
    /\ UNCHANGED ctlVars

\* PortState.from_hex(cin), applied directly to a hexadecimal string
DecodeHexInput ==
    /\ stage = "input"
    /\ ~from_hex_raises(cin)
    /\ cout' = from_hex(cin)
    /\ stage' = "decoded"
    /\ UNCHANGED <<cin, cwire>>
    /\ UNCHANGED ctlVars

\* bit-mapped round trip: boolean sequences of length 0..MaxLen
InitBit == InitCodec(SeqsUpTo(BOOLEAN, MaxLen))
NextBit == Encode("B") \/ DecodeBitmapped
SpecBit == InitBit /\ [][NextBit]_vars

\* hex round trip: byte-aligned boolean sequences of 0..MaxBytes bytes
InitHexRT == InitCodec(UNION {SeqsOfLen(BOOLEAN, 8 * k) : k \in 0..MaxBytes})
NextHexRT == Encode("H") \/ DecodeHex
SpecHexRT == InitHexRT /\ [][NextHexRT]_vars

\* hex decoding: hexadecimal strings of length 0..MaxHexLen
InitHex == InitCodec(SeqsUpTo(HexChars, MaxHexLen))
NextHex == DecodeHexInput
SpecHex == InitHex /\ [][NextHex]_vars

----------------------------------------------------------------------------
(* Properties of the codec *)

\* C1: for every boolean sequence v, decoding with from_bitmapped the string that
\* set_port_states builds in bit-mapped mode yields exactly v.
C1_BitmappedRoundTrip ==
    stage = "decoded" => cout = cin

\* a non-palindromic sequence has been encoded and decoded
C1_Witness ==
    /\ stage = "decoded"
    /\ cin = <<TRUE, FALSE, FALSE>>
    /\ cwire = <<"0", "0", "1">>

\* C2: for every byte-aligned boolean sequence v, set_port_states' hex encoding
\* succeeds and from_hex of it, cut to len(v), yields exactly v.
C2_HexRoundTrip ==
    /\ stage # "raised"
    /\ stage = "decoded" => Slice(cout, 0, Len(cin)) = cin

\* the left-padded form of a hexadecimal string of odd length
Padded(h) == IF Len(h) % 2 = 1 THEN <<"0">> \o h ELSE h
\* the value of the k-th byte (k from 0) of an even-length hexadecimal string
ByteAt(p, k) == 16 * DigitVal(p[2 * k + 1]) + DigitVal(p[2 * k + 2])
\* 2^j
RECURSIVE Pow2(_)
Pow2(j) == IF j = 0 THEN 1 ELSE 2 * Pow2(j - 1)

\* C8: from_hex(h) has 8*ceil(n/2) elements and element 8k+j is bit j (from the
\* least-significant bit) of the k-th byte of h left-padded to even length;
\* from_hex("F8") is [false,false,false,true,true,true,true,true].
C8_FromHexBits ==
    stage = "decoded" =>
        /\ Len(cout) = 8 * ((Len(cin) + 1) \div 2)
        /\ \A k \in 0..(((Len(cin) + 1) \div 2) - 1) : \A j \in 0..7 :
              cout[8 * k + j + 1] = (((ByteAt(Padded(cin), k) \div Pow2(j)) % 2) = 1)
        /\ cin = <<"F", "8">> =>
              cout = <<FALSE, FALSE, FALSE, TRUE, TRUE, TRUE, TRUE, TRUE>>

\* an odd-length string has been decoded into two bytes
C8_Witness ==
    /\ stage = "decoded"
    /\ cin = <<"1", "F", "8">>
    /\ Len(cout) = 16
    /\ cout[1] /\ ~cout[9] /\ cout[12]

----------------------------------------------------------------------------
(* Properties of the controller *)

\* the password is None or the empty string
Unset(pw) == pw \in {None, Some(<<>>)}
\* the errors the password checks raise
MissingCredential == {PasswordError, CurrentPasswordError}
CredentialOps ==
    {"save_initial_states", "restore_factory_defaults", "reset_hub", "change_password"}
\* the process was spawned exactly once and exited with status 0
Succeeded(rs) == Len(rs) = 1 /\ rs[1].spawned /\ rs[1].code = 0

\* C3: with the password unset, save_initial_states, restore_factory_defaults,
\* reset_hub and change_password each fail with the missing-credential error,
\* issue no invocation of the process, and leave port and password unchanged.
C3_MissingCredential ==
    [][(constructed /\ Unset(password) /\ op' \in CredentialOps) =>
          /\ err' \in MissingCredential
          /\ calls' = <<>>
          /\ port' = port
          /\ password' = password]_vars

\* change_password was refused on a controller whose password is the empty string
C3_Witness ==
    /\ constructed
    /\ password = Some(<<>>)
    /\ op = "change_password"
    /\ err = CurrentPasswordError
    /\ calls = <<>>

\* C4: after change_password whose invocation did not succeed (not spawned, or a
\* failure exit status), the in-memory password still equals the old password
\* (the one the invocation carried as its first password argument).
C4_PasswordOnlyAfterSuccess ==
    (op = "change_password" /\ Len(calls) = 1 /\ ~Succeeded(results)) =>
        password = Some(calls[1].pw[1])

\* C5: when the query-all response is "0000" with an empty port list,
\* find_available_port (and construction with no port) fails with the
\* no-hub error and issues no per-port query.
C5_NoHubFound ==
    (/\ op \in {"find_available_port", "__init__"}
     /\ Len(results) >= 1
     /\ results[1].spawned
     /\ Strip(results[1].out) = <<"0", "0", "0", "0">>) =>
        /\ err = NoHubError
        /\ Len(calls) = 1

\* the port identifiers a query-all response lists after its count prefix
ListedIds(output) ==
    IF Len(output) <= 4 THEN <<>> ELSE Split(SliceFrom(output, 4), ",")

\* C6: query_hubs fails with the format error when the count prefix is not a
\* decimal number or differs from the number of listed identifiers; when they
\* agree it returns one HubInfo per listed identifier, in list order.
C6_CountValidated ==
    (op = "query_hubs" /\ Len(results) >= 1 /\ results[1].spawned) =>
        LET output == Strip(results[1].out)
            prefix == Slice(output, 0, 4)
            ids == ListedIds(output)
            malformed == IF IntOk(prefix, 10) THEN IntOf(prefix, 10) # Len(ids) ELSE TRUE
        IN  /\ malformed => err = IntError
            /\ (~malformed /\ err = NoError) =>
                  /\ Len(ret) = Len(ids)
                  /\ \A i \in 1..Len(ids) : ret[i].port = ids[i]

\* C7: every HubInfo produced by query_hub_info / query_hubs has as many
\* port_states as its num_ports, for any 2-hex-character port count.
C7_StatesLength ==
    /\ (op = "query_hub_info" /\ err = NoError) => Len(ret.port_states) = ret.num_ports
    /\ (op = "query_hubs" /\ err = NoError) =>
          \A i \in 1..Len(ret) : Len(ret[i].port_states) = ret[i].num_ports

\* C9: after construction the port never changes, and the password changes
\* only as the effect of change_password.
C9_Frame ==
    [][constructed =>
          /\ constructed'
          /\ port' = port
          /\ op' # "change_password" => password' = password]_vars

\* find_available_port returned a port other than the selected one, which stayed
C9_Witness ==
    /\ constructed
    /\ op = "find_available_port"
    /\ err = NoError
    /\ port = Some(PortName(2))
    /\ ret = PortName(1)

\* C10: get_port_states with a mode other than -B/-H and set_port_states with a
\* mode other than B/H fail with the invalid-mode error and issue no invocation.
C10_ModeRejectedBeforeSend ==
    /\ (op = "get_port_states" /\ modeArg \notin {"-B", "-H"}) =>
          (err = GetModeError /\ calls = <<>>)
    /\ (op = "set_port_states" /\ modeArg \notin {"B", "H"}) =>
          (err = SetModeError /\ calls = <<>>)

====
